---- MODULE Spec2Model ----
(***************************************************************************)
(* Invoice lifecycle of crefin-backend: createInvoice, updateInvoice,      *)
(* markInvoiceAsPaid, deleteInvoice (services/invoice.service.ts) and      *)
(* deleteIncome (income service), running as concurrent HTTP requests      *)
(* against one PostgreSQL store.  Every awaited database call is one       *)
(* atomic step; a request slot runs one handler at a time.  The clients     *)
(* table is fixed: u1 owns client c1, u2 owns client c2.                   *)
(* Three components are also exercised on their own: the predictor gateway *)
(* predictPaymentTime (services/ml.service.ts), the statistics function    *)
(* calculateClientStats, and the refresh tokens of services/auth.service.ts.*)
(***************************************************************************)
EXTENDS Integers, Sequences, FiniteSets, TLC

\* ------------------------------------------------------------------ bounds
MaxCalls == 4
MaxInvoices == 2
MaxIncomes == 2
FirstYear == 2025
MaxYear == FirstYear + 1
MaxHistory == 2
MaxClock == 2
MaxLongHistory == 6
MaxFunds == 2

\* ------------------------------------------------------------ input domains
Procs == {1, 2}
Users == {"u1", "u2"}
ClientIds == {"c1", "c2"}
InvoiceIds == 1 .. MaxInvoices
IncomeIds == 1 .. MaxIncomes
Dates == {15}

\* absent optional values: null column / undefined request field
NullId == 0
NullDate == 0
Undef == "undefined"
NoAmount == 0

\* the clients registered before the first request
SeedClients ==
  [c \in ClientIds |->
     IF c = "c1" THEN [userId |-> "u1", name |-> "Acme"]
                 ELSE [userId |-> "u2", name |-> "Globex"]]

EmptyTable == [i \in {} |-> 0]

\* --------------------------------------------------------------- errors
\* what a handler returns to the HTTP boundary: a result or the error it threw
\* (statusCode is set on the ApiError classes only)
NoResponse == [name |-> "none", statusCode |-> 0, code |-> "", message |-> ""]
Success == [name |-> "ok", statusCode |-> 200, code |-> "", message |-> ""]
NotFoundError(msg) ==
  [name |-> "NotFoundError", statusCode |-> 404, code |-> "NOT_FOUND", message |-> msg]
BadRequestError(msg) ==
  [name |-> "BadRequestError", statusCode |-> 400, code |-> "BAD_REQUEST", message |-> msg]
PlainError(msg) == [name |-> "Error", statusCode |-> 0, code |-> "", message |-> msg]
PrismaError(c) ==
  [name |-> "PrismaClientKnownRequestError", statusCode |-> 0, code |-> c, message |-> ""]
\* the error of a transaction the database could not complete
TransactionFailure == PrismaError("P2028")
\* the query is rejected before it is sent (an Invalid Date argument)
PrismaValidationError ==
  [name |-> "PrismaClientValidationError", statusCode |-> 0, code |-> "", message |-> ""]

ApiErrorNames == {"NotFoundError"}

\* a handler that reports every database error as an internal error
handlePrismaErrorWithoutCodes(err) == [status |-> 500, code |-> "DATABASE_ERROR"]

\* errorHandler: the HTTP status and error code the boundary answers with
handlePrismaError(err) ==
  CASE err.code = "P2002" -> [status |-> 409, code |-> "CONFLICT"]
    [] err.code = "P2025" -> [status |-> 404, code |-> "NOT_FOUND"]
    [] err.code = "P2003" -> [status |-> 400, code |-> "BAD_REQUEST"]
    [] OTHER -> [status |-> 500, code |-> "DATABASE_ERROR"]

errorHandler(err) ==
  IF err.name \in ApiErrorNames THEN [status |-> err.statusCode, code |-> err.code]
  ELSE IF err.name = "PrismaClientKnownRequestError" THEN handlePrismaError(err)
  ELSE IF err.name = "ZodError" THEN [status |-> 400, code |-> "VALIDATION_ERROR"]
  ELSE [status |-> 500, code |-> "INTERNAL_ERROR"]

\* ------------------------------------------------------- predictor gateway
\* a response body as axios hands it over in response.data: a parsed JSON
\* object (a missing field is 0 / NullDate), JSON null, a text that is not
\* JSON (left as a string), or the empty string of an empty body
Body(kind, days, confidence, date) ==
  [json |-> kind, predicted_payment_days |-> days, confidence_score |-> confidence,
   predicted_payment_date |-> date]

\* no body at all; also stands for the null predictPaymentTime returns
NoBody == Body("none", 0, 0, NullDate)

NoPrediction == NoBody

\* a PaymentPredictionResponse with all its fields
WellFormed(body) ==
  /\ body.json = "object"
  /\ body.predicted_payment_days # 0
  /\ body.confidence_score # 0
  /\ body.predicted_payment_date # NullDate

\* the reply to one POST; status 0: no response (timeout after 10 s, connection refused)
Reply(status, body) == [status |-> status, body |-> body]

Timeout == Reply(0, NoBody)

\* axios rejects when no response arrives and for a status outside 2xx
AxiosRejects(reply) == reply.status < 200 \/ reply.status > 299

\* a gateway that answers a failed call with a prediction it makes up
predictPaymentTimeWithDefault(reply) ==
  IF AxiosRejects(reply) THEN Body("object", 30, 1, 30) ELSE reply.body

\* try { response = await mlClient.post(...); logger.info(response.data.<fields>);
\*       return response.data } catch { return null }
\* reading a field of a JSON null body throws a TypeError inside the try
predictPaymentTime(reply) ==
  IF AxiosRejects(reply) THEN NoPrediction
  ELSE IF reply.body.json = "null" THEN NoPrediction
  ELSE reply.body

\* a test that lets every answer through, null included
TruthyAlways(prediction) == TRUE

\* if (prediction): null and the empty string are falsy
Truthy(prediction) == prediction.json \in {"object", "text"}

\* new Date(x): Invalid Date for undefined
InvalidDate == -1

ToDate(x) == IF x = NullDate THEN InvalidDate ELSE x

\* ------------------------------------------------------ client statistics
\* exact fractions n/d (d > 0) in lowest terms stand for the numbers computed
RECURSIVE GCD(_, _)
GCD(a, b) == IF b = 0 THEN a ELSE GCD(b, a % b)

Abs(x) == IF x < 0 THEN -x ELSE x

Rat(n, d) ==
  LET g == GCD(Abs(n), d) IN [num |-> n \div g, den |-> d \div g]

Minus(a, b) == Rat(a.num * b.den - b.num * a.den, a.den * b.den)

\* Math.sqrt(x), kept as "the non-negative root of x"
Sqrt(x) == [rootOf |-> x]

\* Date.getTime() counts in units of 12 hours here; a day is 1000*60*60*24 ms
DayLength == 2

RECURSIVE Sum(_)
\* reduce((sum, days) => sum + days, 0)
Sum(seq) == IF seq = <<>> THEN 0 ELSE Head(seq) + Sum(Tail(seq))

RECURSIVE SumOfSquares(_)
SumOfSquares(seq) == IF seq = <<>> THEN 0 ELSE Head(seq) * Head(seq) + SumOfSquares(Tail(seq))

\* a paidDate is {} (null) or {t}
IsPaid(inv) == inv.paidDate # {}

\* the difference of the two dates without the division into days
PaymentDaysInUnits(inv) ==
  LET paid == CHOOSE t \in inv.paidDate : TRUE IN paid - inv.issueDate

\* Math.floor((paidDate.getTime() - issueDate.getTime()) / (1000*60*60*24))
PaymentDays(inv) ==
  LET paid == CHOOSE t \in inv.paidDate : TRUE IN (paid - inv.issueDate) \div DayLength

\* a comparison that counts a payment after exactly 30 days as late
IsLateFrom30(days) == days >= 30

\* days > 30
IsLate(days) == days > 30

Min(a, b) == IF a < b THEN a ELSE b

\* paymentDays.slice(-count)
Last(seq, count) == SubSeq(seq, Len(seq) - count + 1, Len(seq))

ZeroStats ==
  [avgPaymentDays |-> Rat(0, 1), latePaymentRate |-> Rat(0, 1), paymentStd |-> Sqrt(Rat(0, 1)),
   totalInvoices |-> 0, paymentTrend |-> Rat(0, 1)]

calculateClientStats(invs) ==
  IF Len(invs) = 0 THEN ZeroStats
  ELSE
    \* Array.prototype.filter is SelectSeq: the order is kept
    LET paidInvs == SelectSeq(invs, IsPaid)
        paymentDays == [i \in 1 .. Len(paidInvs) |-> PaymentDays(paidInvs[i])]
        n == Len(paymentDays)
    IN IF n = 0 THEN ZeroStats
       ELSE
         LET avgPaymentDays == Rat(Sum(paymentDays), n)
             lateCount == Len(SelectSeq(paymentDays, IsLate))
             \* sum of (days - avg)^2 over n, that is (n * sum(days^2) - sum(days)^2) / n^2
             variance == Rat(n * SumOfSquares(paymentDays) - Sum(paymentDays) * Sum(paymentDays),
                             n * n)
             recentCount == Min(5, n)
             recentAvg == Rat(Sum(Last(paymentDays, recentCount)), recentCount)
         IN [avgPaymentDays |-> avgPaymentDays,
             latePaymentRate |-> Rat(lateCount, n),
             paymentStd |-> Sqrt(variance),
             totalInvoices |-> n,
             paymentTrend |-> Minus(avgPaymentDays, recentAvg)]

\* ------------------------------------------------------- invoice numbering
RECURSIVE ToDigits(_)
\* String(n): the decimal digits of n, most significant first
ToDigits(n) == IF n < 10 THEN <<n>> ELSE Append(ToDigits(n \div 10), n % 10)

RECURSIVE PadStart(_, _, _)
\* s.padStart(width, fill)
PadStart(s, width, fill) ==
  IF Len(s) >= width THEN s ELSE PadStart(<<fill>> \o s, width, fill)

\* `INV-${year}-`
NumberPrefix(y) == <<"INV", "-", y, "-">>

StartsWith(s, prefix) ==
  /\ Len(s) >= Len(prefix)
  /\ SubSeq(s, 1, Len(prefix)) = prefix

\* the sequence taken from the count itself instead of count + 1
FormatInvoiceNumberFromCount(y, count) ==
  NumberPrefix(y) \o PadStart(ToDigits(count), 3, 0)

\* `INV-${year}-${sequence}` with sequence = String(count + 1).padStart(3, '0')
FormatInvoiceNumber(y, count) ==
  NumberPrefix(y) \o PadStart(ToDigits(count + 1), 3, 0)

VARIABLES
  invoices,   \* invoices table: id -> row
  incomes,    \* income_logs table: id -> row
  nextInvoiceId,  \* ids (uuids) are fresh for every insert
  nextIncomeId,
  year,       \* new Date().getFullYear()
  calls,      \* number of requests received so far
  pc,         \* per request slot: the await the handler is suspended at
  call,       \* per request slot: operation, caller and request body
  loc,        \* per request slot: the handler's local variables
  response,   \* what the last finished handler returned: Success or the error thrown
  mlReply,    \* predictor gateway on its own: what the ML API answers
  mlResult,   \* predictor gateway on its own: what predictPaymentTime returned
  history,    \* statistics on their own: the invoices handed to calculateClientStats
  stats,      \* statistics on their own: what calculateClientStats returned
  accounts,   \* users table: id -> password and password reset token
  redis,      \* Redis key refresh_token:<userId> -> the value stored, if any
  clock,        \* the clock, in seconds
  authResult, \* what the last auth call returned or threw
  clients,    \* clients table (Client Registry): id -> row
  goals       \* goals table: id -> row

\* the state of the invoice handlers
invoiceVars ==
  <<invoices, incomes, nextInvoiceId, nextIncomeId, year, calls, pc, call, loc, response>>

\* the state of the components exercised on their own
predictorVars == <<mlReply, mlResult>>

statsVars == <<history, stats>>

authVars == <<accounts, redis, clock, authResult>>

\* the clients table changes under deleteClient only
clientVars == <<clients>>

\* the goals table changes under addFundsToGoal only
goalVars == <<goals>>

componentVars == <<predictorVars, statsVars, authVars, clientVars, goalVars>>

vars == <<invoiceVars, componentVars>>

\* ------------------------------------------------------------ request slots
NoData ==
  [clientId |-> Undef, amount |-> NoAmount, description |-> Undef, items |-> Undef,
   dueDate |-> NullDate, status |-> Undef, paidDate |-> NullDate, notes |-> Undef]

NoCall == [op |-> "none", userId |-> "none", target |-> NullId, data |-> NoData]

NoLocals ==
  [existing |-> {}, client |-> {}, invoiceNumber |-> <<>>, newId |-> NullId, created |-> {},
   txIncome |-> EmptyTable, prediction |-> NoPrediction, newAmount |-> NoAmount]

\* a request is taken by the first idle slot (the slots are interchangeable)
Free(p) ==
  /\ calls < MaxCalls
  /\ pc[p] = "idle"
  /\ \A q \in Procs : q < p => pc[q] # "idle"

\* the handler of slot p returns (r = Success) or throws r (catch: log, rethrow)
Return(p, r) ==
  /\ pc' = [pc EXCEPT ![p] = "idle"]
  /\ call' = [call EXCEPT ![p] = NoCall]
  /\ loc' = [loc EXCEPT ![p] = NoLocals]
  /\ response' = r

\* the handler of slot p, called as c, suspends at its next await
Suspend(p, c, label, locals) ==
  /\ pc' = [pc EXCEPT ![p] = label]
  /\ call' = [call EXCEPT ![p] = c]
  /\ loc' = [loc EXCEPT ![p] = locals]
  /\ response' = NoResponse

\* the same for the invoice and income handlers, which write no client
Finish(p, r) == Return(p, r) /\ UNCHANGED componentVars

Goto(p, c, label, locals) == Suspend(p, c, label, locals) /\ UNCHANGED componentVars

\* empty tables, no request received
NoInvoiceTraffic ==
  /\ invoices = EmptyTable
  /\ incomes = EmptyTable
  /\ nextInvoiceId = 1
  /\ nextIncomeId = 1
  /\ year = FirstYear
  /\ calls = 0
  /\ pc = [p \in Procs |-> "idle"]
  /\ call = [p \in Procs |-> NoCall]
  /\ loc = [p \in Procs |-> NoLocals]
  /\ response = NoResponse

\* predictPaymentTime has not been called
NotCalled == Body("not called", 0, 0, NullDate)

PredictorUnused ==
  /\ mlReply = Timeout
  /\ mlResult = NotCalled

\* calculateClientStats has not been called
NotComputed == [ZeroStats EXCEPT !.totalInvoices = -1]

StatsUnused ==
  /\ history = <<>>
  /\ stats = NotComputed

\* no tokens: what an auth call returns when it issues none
NoTokens == {}

NoAuthResult == [op |-> "none", error |-> "", refreshToken |-> NoTokens]

\* nobody registered, nothing stored in Redis
AuthUnused ==
  /\ accounts = EmptyTable
  /\ redis = [u \in Users |-> NoTokens]
  /\ clock = 0
  /\ authResult = NoAuthResult

ClientsSeeded == clients = SeedClients

\* one goal of user u1, nothing saved yet
GoalIds == {"g1"}

\* the target lies one above the largest amount of a request
GoalTarget == MaxFunds + 1

SeedGoals ==
  [g \in GoalIds |-> [userId |-> "u1", targetAmount |-> GoalTarget, currentAmount |-> 0]]

GoalsSeeded == goals = SeedGoals

Init ==
  /\ NoInvoiceTraffic
  /\ ClientsSeeded
  /\ GoalsSeeded
  /\ PredictorUnused
  /\ StatsUnused
  /\ AuthUnused


\* ------------------------------------------------------------ createInvoice
CreateRequests ==
  {[NoData EXCEPT !.clientId = c, !.amount = 100, !.description = "website",
                  !.dueDate = 30]
     : c \in ClientIds \cup {"c0"}}

\* request slots that are inside createInvoice and have not inserted yet
Creating == {q \in Procs : pc[q] \in {"ci_count", "ci_insert"}}

\* db.invoice.count({ where: { userId, invoiceNumber: { startsWith } } })
CountInvoices(u, y) ==
  Cardinality({i \in DOMAIN invoices :
                 /\ invoices[i].userId = u
                 /\ StartsWith(invoices[i].invoiceNumber, NumberPrefix(y))})

generateInvoiceNumber(u, y) == FormatInvoiceNumber(y, CountInvoices(u, y))

\* the invoices table without its unique index on invoiceNumber
InvoiceNumberNeverTaken(num) == FALSE

\* unique index invoices_invoiceNumber_key
InvoiceNumberTaken(num) ==
  \E i \in DOMAIN invoices : invoices[i].invoiceNumber = num

\* an insert that stores the invoice as already sent
NewInvoiceRowAsSent(u, data, num, now) ==
  [userId |-> u, clientId |-> data.clientId, invoiceNumber |-> num,
   amount |-> data.amount, description |-> data.description, items |-> data.items,
   dueDate |-> data.dueDate, status |-> "sent", issueDate |-> now,
   paidDate |-> NullDate, incomeLogId |-> NullId, predictedPaymentDate |-> NullDate]

\* the row db.invoice.create stores; the defaults are those of the table
NewInvoiceRow(u, data, num, now) ==
  [userId |-> u, clientId |-> data.clientId, invoiceNumber |-> num,
   amount |-> data.amount, description |-> data.description, items |-> data.items,
   dueDate |-> data.dueDate, status |-> "draft", issueDate |-> now,
   paidDate |-> NullDate, incomeLogId |-> NullId, predictedPaymentDate |-> NullDate]

\* the check "client exists" without "and is the caller's"
ClientMissingIgnoringOwner(u, clientId) == clientId \notin DOMAIN clients

\* !client || client.userId !== userId
ClientMissing(u, clientId) ==
  clientId \notin DOMAIN clients \/ clients[clientId].userId # u

\* invoices_clientId_fkey: an invoice row needs its client row
ClientGone(clientId) == clientId \notin DOMAIN clients

\* step 1: db.client.findUnique and the ownership check
ci_call(p, u, data) ==
  /\ Free(p)
  /\ calls' = calls + 1
  /\ (nextInvoiceId - 1) + Cardinality(Creating) < MaxInvoices
  /\ LET c == [op |-> "createInvoice", userId |-> u, target |-> NullId, data |-> data] IN
       IF ClientMissing(u, data.clientId)
       THEN Finish(p, NotFoundError("Client not found"))
       ELSE Goto(p, c, "ci_count", NoLocals)
  /\ UNCHANGED <<invoices, incomes, nextInvoiceId, nextIncomeId, year>>

ci_findClient(p) == \E u \in Users, data \in CreateRequests : ci_call(p, u, data)

\* step 2: generateInvoiceNumber reads the clock and counts the owner's rows
ci_count(p) ==
  /\ UNCHANGED calls
  /\ pc[p] = "ci_count"
  /\ Goto(p, call[p], "ci_insert",
          [loc[p] EXCEPT !.invoiceNumber = generateInvoiceNumber(call[p].userId, year)])
  /\ UNCHANGED <<invoices, incomes, nextInvoiceId, nextIncomeId, year>>

\* step 3: db.invoice.create; the unique index rejects a taken number
ci_insert(p) ==
  /\ UNCHANGED calls
  /\ pc[p] = "ci_insert"
  /\ IF InvoiceNumberTaken(loc[p].invoiceNumber)
     THEN /\ Finish(p, PrismaError("P2002"))
          /\ UNCHANGED <<invoices, nextInvoiceId>>
     ELSE IF ClientGone(call[p].data.clientId)
     THEN /\ Finish(p, PrismaError("P2003"))
          /\ UNCHANGED <<invoices, nextInvoiceId>>
     ELSE /\ invoices' = (nextInvoiceId :> NewInvoiceRow(call[p].userId, call[p].data,
                                             loc[p].invoiceNumber, year)) @@ invoices
          /\ nextInvoiceId' = nextInvoiceId + 1
          /\ Goto(p, call[p], "ci_predict",
                  [loc[p] EXCEPT !.newId = nextInvoiceId,
                                 !.created = {NewInvoiceRow(call[p].userId, call[p].data,
                                                            loc[p].invoiceNumber, year)}])
  /\ UNCHANGED <<incomes, nextIncomeId, year>>

\* steps 4-6: the client's paid invoices, calculateClientStats, the predictor call
PaidHistory(c) ==
  {i \in DOMAIN invoices :
     /\ invoices[i].clientId = c
     /\ invoices[i].status = "paid"
     /\ invoices[i].paidDate # NullDate}

\* what the ML API may answer to a createInvoice: nothing in time, a
\* prediction, or a 200 whose body is not a prediction
PredictorAnswers ==
  {Timeout, Reply(200, Body("object", 45, 1, 45)), Reply(200, Body("object", 0, 0, NullDate))}

\* the handler returns serializeInvoice(invoice), the row db.invoice.create gave
ci_predictWith(p, reply) ==
  /\ UNCHANGED calls
  /\ pc[p] = "ci_predict"
  /\ IF Cardinality(PaidHistory(call[p].data.clientId)) > 0
     THEN LET prediction == predictPaymentTime(reply) IN
            IF Truthy(prediction)
            THEN Goto(p, call[p], "ci_store", [loc[p] EXCEPT !.prediction = prediction])
            ELSE Finish(p, Success)
     ELSE Finish(p, Success)
  /\ UNCHANGED <<invoices, incomes, nextInvoiceId, nextIncomeId, year>>

ci_predict(p) == \E reply \in PredictorAnswers : ci_predictWith(p, reply)

\* step 7: db.invoice.update stores the prediction
ci_store(p) ==
  /\ UNCHANGED calls
  /\ pc[p] = "ci_store"
  /\ LET predictedPaymentDate == ToDate(loc[p].prediction.predicted_payment_date) IN
       IF predictedPaymentDate = InvalidDate
       THEN /\ Finish(p, PrismaValidationError)
            /\ UNCHANGED invoices
       ELSE IF loc[p].newId \in DOMAIN invoices
       THEN /\ invoices' = [invoices EXCEPT ![loc[p].newId].predictedPaymentDate =
                                               predictedPaymentDate]
            /\ Finish(p, Success)
       ELSE /\ Finish(p, PrismaError("P2025"))
            /\ UNCHANGED invoices
  /\ UNCHANGED <<incomes, nextInvoiceId, nextIncomeId, year>>

\* ----------------------------------------------------------- getInvoiceById
\* the check "invoice exists" without "and is the caller's"
InvoiceMissingIgnoringOwner(u, id) == id \notin DOMAIN invoices

\* !invoice || invoice.userId !== userId, after db.invoice.findUnique
InvoiceMissing(u, id) == id \notin DOMAIN invoices \/ invoices[id].userId # u

\* db.invoice.findUnique({ include }), the two checks, the serialized invoice
gi_call(p, u, id) ==
  /\ Free(p)
  /\ calls' = calls + 1
  /\ IF InvoiceMissing(u, id)
     THEN Finish(p, NotFoundError("Invoice not found"))
     ELSE Finish(p, Success)
  /\ UNCHANGED <<invoices, incomes, nextInvoiceId, nextIncomeId, year>>

gi_find(p) == \E u \in Users, id \in InvoiceIds : gi_call(p, u, id)

\* ------------------------------------------------------------ updateInvoice
\* bodies accepted by updateInvoiceSchema: every field is optional, status
\* ranges over the enum (which includes 'paid')
UpdateRequests ==
  { [NoData EXCEPT !.status = "sent"],
    [NoData EXCEPT !.status = "paid"],
    [NoData EXCEPT !.amount = 250, !.description = "redesign", !.items = "2 items",
                   !.dueDate = 60],
    [NoData EXCEPT !.amount = 250, !.description = "redesign", !.items = "2 items",
                   !.dueDate = 60, !.status = "paid"] }

\* the guard "can't update paid invoices"
UpdateRejected(existing, data) ==
  existing.status = "paid" /\ data.status # "paid"

\* db.invoice.update({ data }): an undefined field leaves the column alone
PatchInvoice(row, data) ==
  [row EXCEPT
     !.amount = IF data.amount = NoAmount THEN @ ELSE data.amount,
     !.description = IF data.description = Undef THEN @ ELSE data.description,
     !.items = IF data.items = Undef THEN @ ELSE data.items,
     !.dueDate = IF data.dueDate = NullDate THEN @ ELSE data.dueDate,
     !.status = IF data.status = Undef THEN @ ELSE data.status]

\* db.invoice.findUnique, the ownership check and the paid guard
ui_call(p, u, id, data) ==
  /\ Free(p)
  /\ calls' = calls + 1
  /\ LET c == [op |-> "updateInvoice", userId |-> u, target |-> id, data |-> data] IN
       IF InvoiceMissing(u, id)
       THEN Finish(p, NotFoundError("Invoice not found"))
       ELSE IF UpdateRejected(invoices[id], data)
       THEN Finish(p, PlainError("Cannot update a paid invoice"))
       ELSE Goto(p, c, "ui_update", NoLocals)
  /\ UNCHANGED <<invoices, incomes, nextInvoiceId, nextIncomeId, year>>

ui_find(p) ==
  \E u \in Users, id \in InvoiceIds, data \in UpdateRequests : ui_call(p, u, id, data)

\* db.invoice.update({ where: { id } })
ui_update(p) ==
  /\ UNCHANGED calls
  /\ pc[p] = "ui_update"
  /\ IF call[p].target \in DOMAIN invoices
     THEN /\ invoices' = [invoices EXCEPT ![call[p].target] = PatchInvoice(@, call[p].data)]
          /\ Finish(p, Success)
     ELSE /\ Finish(p, PrismaError("P2025"))
          /\ UNCHANGED invoices
  /\ UNCHANGED <<incomes, nextInvoiceId, nextIncomeId, year>>

\* -------------------------------------------------------- markInvoiceAsPaid
MarkPaidRequests == {[NoData EXCEPT !.paidDate = d] : d \in Dates}

\* request slots inside markInvoiceAsPaid that have not inserted the income yet
Marking == {q \in Procs : pc[q] = "mp_createIncome"}

\* an income row that copies the amount and leaves the rest to the defaults
NewIncomeRowAmountOnly(u, invoice, client, data) ==
  [userId |-> u, amount |-> invoice.amount, clientId |-> Undef, clientName |-> Undef,
   projectName |-> Undef, source |-> "manual", notes |-> <<>>, loggedAt |-> NullDate]

\* the row tx.incomeLog.create stores, built from the invoice read in step 1
PaymentNote(num) == <<"Payment for invoice ">> \o num

NewIncomeRow(u, invoice, client, data) ==
  [userId |-> u, amount |-> invoice.amount, clientId |-> invoice.clientId,
   clientName |-> client.name, projectName |-> invoice.description,
   source |-> "invoice",
   notes |-> IF data.notes = Undef THEN PaymentNote(invoice.invoiceNumber)
                                   ELSE <<data.notes>>,
   loggedAt |-> data.paidDate]

\* tx.invoice.update({ data: { status: 'paid', paidDate, incomeLogId } })
PaidInvoice(row, paidDate, incomeId) ==
  [row EXCEPT !.status = "paid", !.paidDate = paidDate, !.incomeLogId = incomeId]

\* income_logs after db.$transaction commits / rolls back the rows written in it
Committed(table, written) == written @@ table

\* a rollback that keeps the rows written in the transaction
RolledBackKeepsWrites(table, written) == written @@ table

RolledBack(table, written) == table

\* db.invoice.findUnique({ include: { client } }) and the two checks
mp_call(p, u, id, data) ==
  /\ Free(p)
  /\ calls' = calls + 1
  /\ (nextIncomeId - 1) + Cardinality(Marking) < MaxIncomes
  /\ LET c == [op |-> "markInvoiceAsPaid", userId |-> u, target |-> id, data |-> data] IN
       IF InvoiceMissing(u, id)
       THEN Finish(p, NotFoundError("Invoice not found"))
       ELSE IF invoices[id].status = "paid"
       THEN Finish(p, PlainError("Invoice is already marked as paid"))
       ELSE Goto(p, c, "mp_createIncome",
                 [NoLocals EXCEPT !.existing = {invoices[id]},
                                  !.client = {clients[invoices[id].clientId]}])
  /\ UNCHANGED <<invoices, incomes, nextInvoiceId, nextIncomeId, year>>

mp_find(p) ==
  \E u \in Users, id \in InvoiceIds, data \in MarkPaidRequests : mp_call(p, u, id, data)

\* inside the transaction: tx.incomeLog.create (not visible until commit)
mp_createIncome(p) ==
  /\ UNCHANGED calls
  /\ pc[p] = "mp_createIncome"
  /\ LET invoice == CHOOSE r \in loc[p].existing : TRUE
         client == CHOOSE r \in loc[p].client : TRUE
     IN \* income_logs_clientId_fkey: the insert needs the client row
        IF ClientGone(invoice.clientId)
        THEN /\ Finish(p, PrismaError("P2003"))
             /\ UNCHANGED nextIncomeId
        ELSE /\ Goto(p, call[p], "mp_updateInvoice",
                     [loc[p] EXCEPT !.txIncome =
                        nextIncomeId :> NewIncomeRow(call[p].userId, invoice, client,
                                                     call[p].data)])
             /\ nextIncomeId' = nextIncomeId + 1
  /\ UNCHANGED <<invoices, incomes, nextInvoiceId, year>>

\* inside the transaction: tx.invoice.update, then the commit of both writes;
\* a missing row throws P2025 out of the callback and the transaction rolls back.
\* Under read committed nobody sees the update before the commit and a writer
\* of the row waits for it, so update and commit are one step.
mp_updateInvoice(p) ==
  /\ UNCHANGED calls
  /\ pc[p] = "mp_updateInvoice"
  /\ LET incomeId == CHOOSE i \in DOMAIN loc[p].txIncome : TRUE IN
       IF call[p].target \in DOMAIN invoices
       THEN /\ incomes' = Committed(incomes, loc[p].txIncome)
            /\ invoices' = [invoices EXCEPT ![call[p].target] =
                              PaidInvoice(@, call[p].data.paidDate, incomeId)]
            /\ Finish(p, Success)
       ELSE /\ incomes' = RolledBack(incomes, loc[p].txIncome)
            /\ UNCHANGED invoices
            /\ Finish(p, PrismaError("P2025"))
  /\ UNCHANGED <<nextInvoiceId, nextIncomeId, year>>

\* the transaction fails between the income insert and the invoice update
\* (connection lost, statement timeout, process crash): it rolls back
mp_abort(p) ==
  /\ UNCHANGED calls
  /\ pc[p] = "mp_updateInvoice"
  /\ incomes' = RolledBack(incomes, loc[p].txIncome)
  /\ Finish(p, TransactionFailure)
  /\ UNCHANGED <<invoices, nextInvoiceId, nextIncomeId, year>>

\* ------------------------------------------------------------ deleteInvoice
\* db.invoice.findUnique, the ownership check and the paid guard
di_call(p, u, id) ==
  /\ Free(p)
  /\ calls' = calls + 1
  /\ LET c == [op |-> "deleteInvoice", userId |-> u, target |-> id, data |-> NoData] IN
       IF InvoiceMissing(u, id)
       THEN Finish(p, NotFoundError("Invoice not found"))
       ELSE IF invoices[id].status = "paid"
       THEN Finish(p, PlainError("Cannot delete paid invoice"))
       ELSE Goto(p, c, "di_delete", NoLocals)
  /\ UNCHANGED <<invoices, incomes, nextInvoiceId, nextIncomeId, year>>

di_find(p) == \E u \in Users, id \in InvoiceIds : di_call(p, u, id)

\* db.invoice.delete({ where: { id } })
di_delete(p) ==
  /\ UNCHANGED calls
  /\ pc[p] = "di_delete"
  /\ IF call[p].target \in DOMAIN invoices
     THEN /\ invoices' = [i \in DOMAIN invoices \ {call[p].target} |-> invoices[i]]
          /\ Finish(p, Success)
     ELSE /\ Finish(p, PrismaError("P2025"))
          /\ UNCHANGED invoices
  /\ UNCHANGED <<incomes, nextInvoiceId, nextIncomeId, year>>

\* ------------------------------------------------------------- deleteIncome
\* invoices_incomeLogId_fkey ... ON DELETE SET NULL
SetNullIncomeLog(table, incomeId) ==
  [i \in DOMAIN table |->
     IF table[i].incomeLogId = incomeId
     THEN [table[i] EXCEPT !.incomeLogId = NullId] ELSE table[i]]

\* db.incomeLog.findUnique and the ownership checks
dinc_call(p, u, id) ==
  /\ Free(p)
  /\ calls' = calls + 1
  /\ LET c == [op |-> "deleteIncome", userId |-> u, target |-> id, data |-> NoData] IN
       IF id \notin DOMAIN incomes \/ incomes[id].userId # u
       THEN Finish(p, NotFoundError("Income record not found"))
       ELSE Goto(p, c, "dinc_delete", NoLocals)
  /\ UNCHANGED <<invoices, incomes, nextInvoiceId, nextIncomeId, year>>

dinc_find(p) == \E u \in Users, id \in IncomeIds : dinc_call(p, u, id)

\* db.incomeLog.delete({ where: { id } })
dinc_delete(p) ==
  /\ UNCHANGED calls
  /\ pc[p] = "dinc_delete"
  /\ IF call[p].target \in DOMAIN incomes
     THEN /\ incomes' = [i \in DOMAIN incomes \ {call[p].target} |-> incomes[i]]
          /\ invoices' = SetNullIncomeLog(invoices, call[p].target)
          /\ Finish(p, Success)
     ELSE /\ Finish(p, PrismaError("P2025"))
          /\ UNCHANGED <<invoices, incomes>>
  /\ UNCHANGED <<nextInvoiceId, nextIncomeId, year>>

\* ------------------------------------------------------------- deleteClient
\* a clients table that no invoice refers to by a foreign key
ClientNeverReferenced(clientId) == FALSE

\* invoices_clientId_fkey ... ON DELETE RESTRICT: invoices refer to the client
ClientReferenced(clientId) ==
  \E i \in DOMAIN invoices : invoices[i].clientId = clientId

\* income_logs_clientId_fkey ... ON DELETE SET NULL
SetNullClient(table, clientId) ==
  [k \in DOMAIN table |->
     IF table[k].clientId = clientId THEN [table[k] EXCEPT !.clientId = Undef]
                                     ELSE table[k]]

\* db.client.findUnique and the two checks
dc_call(p, u, clientId) ==
  /\ Free(p)
  /\ calls' = calls + 1
  /\ LET c == [op |-> "deleteClient", userId |-> u, target |-> NullId,
               data |-> [NoData EXCEPT !.clientId = clientId]] IN
       IF ClientMissing(u, clientId)
       THEN Return(p, NotFoundError("Client not found"))
       ELSE Suspend(p, c, "dc_delete", NoLocals)
  /\ UNCHANGED <<invoices, incomes, nextInvoiceId, nextIncomeId, year>>
  /\ UNCHANGED componentVars

dc_find(p) == \E u \in Users, clientId \in ClientIds \cup {"c0"} : dc_call(p, u, clientId)

\* db.client.delete({ where: { id: clientId } })
dc_delete(p) ==
  /\ UNCHANGED calls
  /\ pc[p] = "dc_delete"
  /\ IF ClientGone(call[p].data.clientId)
     THEN /\ Return(p, PrismaError("P2025"))
          /\ UNCHANGED <<clients, incomes>>
     ELSE IF ClientReferenced(call[p].data.clientId)
     THEN /\ Return(p, PrismaError("P2003"))
          /\ UNCHANGED <<clients, incomes>>
     ELSE /\ clients' = [c \in DOMAIN clients \ {call[p].data.clientId} |-> clients[c]]
          /\ incomes' = SetNullClient(incomes, call[p].data.clientId)
          /\ Return(p, Success)
  /\ UNCHANGED <<invoices, nextInvoiceId, nextIncomeId, year>>
  /\ UNCHANGED <<predictorVars, statsVars, authVars, goalVars>>

\* ----------------------------------------------------------- addFundsToGoal
\* the amounts of a request: positive (addFundsSchema), in whole units
FundAmounts == 1 .. MaxFunds

\* !existingGoal, existingGoal.userId !== userId
GoalMissing(u, goalId) == goalId \notin DOMAIN goals \/ goals[goalId].userId # u

\* newAmount > targetAmount
ExceedsTarget(newAmount, targetAmount) == newAmount > targetAmount

\* db.goal.findUnique, the two checks, newAmount = currentAmount + amount and
\* the check against the target, all on the row that was read
ag_call(p, u, goalId, amount) ==
  /\ Free(p)
  /\ calls' = calls + 1
  /\ LET c == [op |-> "addFundsToGoal", userId |-> u, target |-> goalId,
               data |-> [NoData EXCEPT !.amount = amount]] IN
       IF GoalMissing(u, goalId)
       THEN Return(p, NotFoundError("Goal not found"))
       ELSE LET newAmount == goals[goalId].currentAmount + amount IN
              IF ExceedsTarget(newAmount, goals[goalId].targetAmount)
              THEN Return(p, BadRequestError("would exceed target amount"))
              ELSE Suspend(p, c, "ag_update", [NoLocals EXCEPT !.newAmount = newAmount])
  /\ UNCHANGED <<invoices, incomes, nextInvoiceId, nextIncomeId, year>>
  /\ UNCHANGED componentVars

ag_find(p) ==
  \E u \in Users, goalId \in GoalIds \cup {"g0"}, amount \in FundAmounts :
    ag_call(p, u, goalId, amount)

\* db.goal.update({ where: { id: goalId }, data: { currentAmount: newAmount } })
ag_update(p) ==
  /\ UNCHANGED calls
  /\ pc[p] = "ag_update"
  /\ IF call[p].target \in DOMAIN goals
     THEN /\ goals' = [goals EXCEPT ![call[p].target].currentAmount = loc[p].newAmount]
          /\ Return(p, Success)
     ELSE /\ Return(p, PrismaError("P2025"))
          /\ UNCHANGED goals
  /\ UNCHANGED <<invoices, incomes, nextInvoiceId, nextIncomeId, year>>
  /\ UNCHANGED <<predictorVars, statsVars, authVars, clientVars>>

\* ------------------------------------------------------------------- clock
NewYear ==
  /\ year < MaxYear
  /\ year' = year + 1
  /\ UNCHANGED <<invoices, incomes, nextInvoiceId, nextIncomeId, calls, pc, call, loc, response>>
  /\ UNCHANGED componentVars

\* ------------------------------------------------------------ specification
\* one step of a handler that writes, running in request slot p
Step(p) ==
  \/ ci_findClient(p)
  \/ ci_count(p)
  \/ ci_insert(p)
  \/ ci_predict(p)
  \/ ci_store(p)
  \/ ui_find(p)
  \/ ui_update(p)
  \/ mp_find(p)
  \/ mp_createIncome(p)
  \/ mp_updateInvoice(p)
  \/ mp_abort(p)
  \/ di_find(p)
  \/ di_delete(p)
  \/ dinc_find(p)
  \/ dinc_delete(p)

\* concurrent requests
Next ==
  \/ \E p \in Procs : Step(p)
  \/ NewYear

Spec == Init /\ [][Next]_vars

\* requests served one after the other; getInvoiceById, which writes nothing,
\* is served here
NextSeq ==
  \/ Step(1)
  \/ gi_find(1)
  \/ NewYear

SpecSeq == Init /\ [][NextSeq]_vars

\* sequential createInvoice traffic of the numbering property: requests served
\* one after the other, no deleteInvoice, the year changing between two calls
AllIdle == \A p \in Procs : pc[p] = "idle"

NewYearBetweenCalls == AllIdle /\ NewYear

NextNumbering ==
  \/ ci_findClient(1)
  \/ ci_count(1)
  \/ ci_insert(1)
  \/ ci_predict(1)
  \/ ci_store(1)
  \/ gi_find(1)
  \/ ui_find(1)
  \/ ui_update(1)
  \/ mp_find(1)
  \/ mp_createIncome(1)
  \/ mp_updateInvoice(1)
  \/ mp_abort(1)
  \/ dinc_find(1)
  \/ dinc_delete(1)
  \/ NewYearBetweenCalls

SpecNumbering == Init /\ [][NextNumbering]_vars

\* concurrent createInvoice traffic of the allocation race: the requests that
\* add and remove invoices and build payment history, without updateInvoice
\* and deleteIncome
StepCreate(p) ==
  \/ ci_findClient(p)
  \/ ci_count(p)
  \/ ci_insert(p)
  \/ ci_predict(p)
  \/ ci_store(p)
  \/ mp_find(p)
  \/ mp_createIncome(p)
  \/ mp_updateInvoice(p)
  \/ mp_abort(p)
  \/ di_find(p)
  \/ di_delete(p)

NextCreate ==
  \/ \E p \in Procs : StepCreate(p)
  \/ NewYear

SpecCreate == Init /\ [][NextCreate]_vars

\* concurrent requests that create, pay and delete invoices and delete clients
StepClients(p) ==
  \/ ci_findClient(p)
  \/ ci_count(p)
  \/ ci_insert(p)
  \/ ci_predict(p)
  \/ ci_store(p)
  \/ mp_find(p)
  \/ mp_createIncome(p)
  \/ mp_updateInvoice(p)
  \/ mp_abort(p)
  \/ di_find(p)
  \/ di_delete(p)
  \/ dc_find(p)
  \/ dc_delete(p)

NextClients == \E p \in Procs : StepClients(p)

SpecClients == Init /\ [][NextClients]_vars

\* concurrent addFundsToGoal requests on a goal that starts at or below its target
StartingGoals ==
  {[g \in GoalIds |-> [SeedGoals[g] EXCEPT !.currentAmount = saved]] : saved \in 0 .. GoalTarget}

InitGoals ==
  /\ NoInvoiceTraffic
  /\ ClientsSeeded
  /\ PredictorUnused
  /\ StatsUnused
  /\ AuthUnused
  /\ goals \in StartingGoals

NextGoals == \E p \in Procs : ag_find(p) \/ ag_update(p)

SpecGoals == InitGoals /\ [][NextGoals]_vars

\* ------------------------------------------- the predictor gateway on its own
\* every reply of the ML API: no response, or a status with a body
PredictorStatuses == {200, 201, 204, 400, 404, 422, 429, 500, 503}

PredictorBodies ==
  {Body("object", days, confidence, date) :
     days \in {0, 12, 45}, confidence \in {0, 1}, date \in {NullDate, 45}}
  \cup {Body("null", 0, 0, NullDate), Body("text", 0, 0, NullDate),
        Body("empty", 0, 0, NullDate)}

PredictorReplies ==
  {Timeout} \cup {Reply(status, body) : status \in PredictorStatuses, body \in PredictorBodies}

InitPredictor ==
  /\ NoInvoiceTraffic
  /\ ClientsSeeded
  /\ GoalsSeeded
  /\ StatsUnused
  /\ AuthUnused
  /\ mlReply \in PredictorReplies
  /\ mlResult = NotCalled

\* one call of predictPaymentTime against the reply
CallPredictor ==
  /\ mlResult = NotCalled
  /\ mlResult' = predictPaymentTime(mlReply)
  /\ UNCHANGED <<mlReply, invoiceVars, clientVars, goalVars, statsVars, authVars>>

SpecPredictor == InitPredictor /\ [][CallPredictor]_vars

\* ------------------------------------------ the client statistics on their own
\* issue dates and paid dates in units of 12 hours; 71 is 35 days after 1
HistoryEntries ==
  {[issueDate |-> issued, paidDate |-> paid] :
     issued \in {1, 2}, paid \in {{}, {0}, {61}, {63}, {71}}}

\* the longer inputs, past the five invoices of the trend, are made of fewer
\* kinds of invoice: unpaid, paid after exactly 30 days, paid after 35 days
LongHistoryEntries ==
  {[issueDate |-> 1, paidDate |-> paid] : paid \in {{}, {61}, {71}}}

LongHistories ==
  UNION {[1 .. n -> LongHistoryEntries] : n \in (MaxHistory + 1) .. MaxLongHistory}

Histories == UNION {[1 .. n -> HistoryEntries] : n \in 0 .. MaxHistory} \cup LongHistories

InitStats ==
  /\ NoInvoiceTraffic
  /\ ClientsSeeded
  /\ GoalsSeeded
  /\ PredictorUnused
  /\ AuthUnused
  /\ history \in Histories
  /\ stats = NotComputed

ComputeStats ==
  /\ stats = NotComputed
  /\ stats' = calculateClientStats(history)
  /\ UNCHANGED <<history, invoiceVars, clientVars, goalVars, predictorVars, authVars>>

SpecStats == InitStats /\ [][ComputeStats]_vars

\* ------------------------------------------------ the auth service on its own
\* auth requests served one after the other (services/auth.service.ts)
Passwords == {"pw1", "pw2"}

\* 7 days in seconds: expiresIn '7d' and the Redis expiry
SevenDays == 604800

Email(u) == <<u, "@example.com">>

\* the payload of both tokens; isPremium is false for every user here
TokenPayload(u) == [userId |-> u, email |-> Email(u), isPremium |-> FALSE]

\* jwt.sign(payload, JWT_REFRESH_SECRET, { expiresIn: '7d' }): the token is a
\* function of the payload, the secret and the second it is signed in (iat)
generateRefreshToken(payload, t) ==
  [payload |-> payload, iat |-> t, exp |-> t + SevenDays, secret |-> "JWT_REFRESH_SECRET"]

\* a token signed with another secret
Forged(u, t) == [generateRefreshToken(TokenPayload(u), t) EXCEPT !.secret = "other"]

\* the tokens a client may present: every token that can have been issued
\* by now, and forged ones
PresentableTokens ==
  {generateRefreshToken(TokenPayload(u), t) : u \in Users, t \in 0 .. clock}
  \cup {Forged(u, clock) : u \in Users}

\* jwt.verify(token, JWT_REFRESH_SECRET): signature and expiry
JwtVerifies(token) == token.secret = "JWT_REFRESH_SECRET" /\ clock < token.exp

\* the value under refresh_token:<userId>, gone 7 days after it was set
RedisGet(u) == {entry.token : entry \in {e \in redis[u] : clock < e.expiresAt}}

\* redis.setEx(key, 7 * 24 * 60 * 60, refreshToken)
storeRefreshToken(u, token) ==
  redis' = [redis EXCEPT ![u] = {[token |-> token, expiresAt |-> clock + SevenDays]}]

\* storedToken === refreshToken
verifyRefreshToken(u, token) == RedisGet(u) = {token}

\* redis.del(key)
RedisDel(u) == redis' = [redis EXCEPT ![u] = NoTokens]

AuthReturns(op, tokens) == authResult' = [op |-> op, error |-> "", refreshToken |-> tokens]

AuthThrows(op, err) == authResult' = [op |-> op, error |-> err, refreshToken |-> NoTokens]

register(u, password) ==
  /\ IF u \in DOMAIN accounts
     THEN /\ AuthThrows("register", "ConflictError")
          /\ UNCHANGED <<accounts, redis>>
     ELSE LET refreshToken == generateRefreshToken(TokenPayload(u), clock) IN
            /\ accounts' = (u :> [password |-> password, passwordResetToken |-> FALSE])
                              @@ accounts
            /\ storeRefreshToken(u, refreshToken)
            /\ AuthReturns("register", {refreshToken})
  /\ UNCHANGED <<clock, invoiceVars, clientVars, goalVars, predictorVars, statsVars>>

login(u, password) ==
  /\ IF u \notin DOMAIN accounts \/ accounts[u].password # password
     THEN /\ AuthThrows("login", "AuthenticationError")
          /\ UNCHANGED redis
     ELSE LET refreshToken == generateRefreshToken(TokenPayload(u), clock) IN
            /\ storeRefreshToken(u, refreshToken)
            /\ AuthReturns("login", {refreshToken})
  /\ UNCHANGED <<accounts, clock, invoiceVars, clientVars, goalVars, predictorVars, statsVars>>

forgotPassword(u) ==
  /\ IF u \in DOMAIN accounts
     THEN accounts' = [accounts EXCEPT ![u].passwordResetToken = TRUE]
     ELSE UNCHANGED accounts
  /\ AuthReturns("forgotPassword", NoTokens)
  /\ UNCHANGED <<redis, clock, invoiceVars, clientVars, goalVars, predictorVars, statsVars>>

\* called with the reset token mailed to u
resetPassword(u, newPassword) ==
  /\ IF u \in DOMAIN accounts /\ accounts[u].passwordResetToken
     THEN /\ accounts' = [accounts EXCEPT ![u] = [password |-> newPassword,
                                                   passwordResetToken |-> FALSE]]
          /\ RedisDel(u)
          /\ AuthReturns("resetPassword", NoTokens)
     ELSE /\ AuthThrows("resetPassword", "ValidationError")
          /\ UNCHANGED <<accounts, redis>>
  /\ UNCHANGED <<clock, invoiceVars, clientVars, goalVars, predictorVars, statsVars>>

\* every error inside the try is rethrown as AuthenticationError
refreshAccessToken(refreshToken) ==
  /\ LET u == refreshToken.payload.userId IN
       IF /\ JwtVerifies(refreshToken)
          /\ verifyRefreshToken(u, refreshToken)
          /\ u \in DOMAIN accounts
       THEN LET newRefreshToken == generateRefreshToken(TokenPayload(u), clock) IN
              /\ storeRefreshToken(u, newRefreshToken)
              /\ AuthReturns("refreshAccessToken", {newRefreshToken})
       ELSE /\ AuthThrows("refreshAccessToken", "AuthenticationError")
            /\ UNCHANGED redis
  /\ UNCHANGED <<accounts, clock, invoiceVars, clientVars, goalVars, predictorVars, statsVars>>

logout(u) ==
  /\ RedisDel(u)
  /\ AuthReturns("logout", NoTokens)
  /\ UNCHANGED <<accounts, clock, invoiceVars, clientVars, goalVars, predictorVars, statsVars>>

\* a second passes
Tick ==
  /\ clock < MaxClock
  /\ clock' = clock + 1
  /\ UNCHANGED <<accounts, redis, authResult, invoiceVars, clientVars, goalVars, predictorVars, statsVars>>

Register == \E u \in Users, password \in Passwords : register(u, password)

Login == \E u \in Users, password \in Passwords : login(u, password)

ForgotPassword == \E u \in Users : forgotPassword(u)

ResetPassword == \E u \in Users, password \in Passwords : resetPassword(u, password)

RefreshAccessToken == \E token \in PresentableTokens : refreshAccessToken(token)

Logout == \E u \in DOMAIN accounts : logout(u)

NextAuth ==
  \/ Register
  \/ Login
  \/ ForgotPassword
  \/ ResetPassword
  \/ RefreshAccessToken
  \/ Logout
  \/ Tick

SpecAuth == Init /\ [][NextAuth]_vars

\* ===================================================================== claims

\* the error classes of the taxonomy, as the HTTP boundary reports them
IsPreconditionFailed(resp) == resp.status \in {400, 412, 422}

IsConflict(resp) == resp.status = 409

\* slot p's handler ends in this step
Ends(p) == pc[p] # "idle" /\ pc'[p] = "idle"

\* slot p's markInvoiceAsPaid transaction ends in this step without committing
MarkFails(p) == pc[p] = "mp_updateInvoice" /\ Ends(p) /\ response' # Success

\* slot p's markInvoiceAsPaid transaction commits in this step
MarkCommits(p) == pc[p] = "mp_updateInvoice" /\ Ends(p) /\ response' = Success

Owned(u, id) == id \in DOMAIN invoices /\ invoices[id].userId = u

\* C1: markInvoiceAsPaid is all-or-nothing.  When the transaction fails after
\* the income insert and before the invoice update has taken effect, the income
\* record the call inserted is not stored afterwards, no invoice refers to it,
\* and the step leaves every invoice (status, paidDate, incomeLogId) and every
\* stored income record as it was.
C1_MarkPaidAllOrNothing ==
  [][\A p \in Procs :
        MarkFails(p) =>
          /\ \A k \in DOMAIN loc[p].txIncome :
               /\ k \notin DOMAIN incomes'
               /\ \A i \in DOMAIN invoices' : invoices'[i].incomeLogId # k
          /\ invoices' = invoices
          /\ incomes' = incomes]_vars

\* a failure was injected into a transaction that had inserted income 1: the
\* income table is empty and the invoice is still a draft
C1_Witness ==
  /\ response = TransactionFailure
  /\ nextIncomeId = 2
  /\ DOMAIN incomes = {}
  /\ \E i \in DOMAIN invoices :
       invoices[i].status = "draft" /\ invoices[i].incomeLogId = NullId

\* C2: an invoice has a non-null incomeLogId if and only if its status is paid,
\* in every state between two calls.
C2_IncomeLogIffPaid ==
  AllIdle =>
    \A i \in DOMAIN invoices :
      (invoices[i].incomeLogId # NullId) <=> (invoices[i].status = "paid")

\* C3: between two calls, every paid invoice has an incomeLogId that refers to a
\* stored income record with the invoice's amount and loggedAt = paidDate.
C3_PaidInvoiceHasIncome ==
  AllIdle =>
    \A i \in DOMAIN invoices :
      invoices[i].status = "paid" =>
        /\ invoices[i].incomeLogId \in DOMAIN incomes
        /\ incomes[invoices[i].incomeLogId].amount = invoices[i].amount
        /\ incomes[invoices[i].incomeLogId].loggedAt = invoices[i].paidDate

\* C4: every updateInvoice call on a paid invoice of the caller, whatever its
\* body, is rejected with a PreconditionFailed-class error in its first step and
\* changes nothing; no updateInvoice write reaches a paid invoice.
C4_UpdateOfPaidRejected ==
  [][/\ \A p \in Procs, u \in Users, id \in InvoiceIds, data \in UpdateRequests :
          (ui_call(p, u, id, data) /\ Owned(u, id) /\ invoices[id].status = "paid") =>
            /\ pc'[p] = "idle"
            /\ IsPreconditionFailed(errorHandler(response'))
     /\ \A p \in Procs :
          (pc[p] = "ui_update" /\ call[p].target \in DOMAIN invoices
             /\ invoices[call[p].target].status = "paid") =>
            invoices' = invoices]_vars

\* C5: every deleteInvoice call on a paid invoice of the caller is rejected with
\* a PreconditionFailed-class error; the invoice and the income records stay.
C5_DeleteOfPaidRejected ==
  [][\A p \in Procs, u \in Users, id \in InvoiceIds :
        (di_call(p, u, id) /\ Owned(u, id) /\ invoices[id].status = "paid") =>
          /\ pc'[p] = "idle"
          /\ IsPreconditionFailed(errorHandler(response'))
          /\ invoices' = invoices
          /\ incomes' = incomes]_vars

\* C6: a markInvoiceAsPaid call on an already paid invoice of the caller is
\* rejected with a Conflict-class error, inserts no income record and leaves
\* the invoice as it was.
C6_MarkPaidTwiceConflict ==
  [][\A p \in Procs, u \in Users, id \in InvoiceIds, data \in MarkPaidRequests :
        (mp_call(p, u, id, data) /\ Owned(u, id) /\ invoices[id].status = "paid") =>
          /\ pc'[p] = "idle"
          /\ IsConflict(errorHandler(response'))
          /\ invoices' = invoices
          /\ incomes' = incomes
          /\ nextIncomeId' = nextIncomeId]_vars

\* the income records markInvoiceAsPaid created for the invoice numbered num
IncomesOf(num) ==
  {k \in DOMAIN incomes :
     incomes[k].source = "invoice" /\ incomes[k].notes = PaymentNote(num)}

\* C7: concurrent markInvoiceAsPaid calls on one invoice create exactly one
\* income record for it: a call commits only while the invoice has none, so
\* no stored invoice ever has two.
C7_OneIncomePerInvoice ==
  \A i \in DOMAIN invoices : Cardinality(IncomesOf(invoices[i].invoiceNumber)) <= 1

\* C8: an invoice's status becomes paid only in the commit of a
\* markInvoiceAsPaid call on it; no other step moves a non-paid invoice to paid.
C8_PaidOnlyByMarkPaid ==
  [][\A i \in DOMAIN invoices \cap DOMAIN invoices' :
        (invoices[i].status # "paid" /\ invoices'[i].status = "paid") =>
          \E p \in Procs : MarkCommits(p) /\ call[p].target = i]_vars

\* C9: no two stored invoices of one owner have the same invoiceNumber.
C9_NumberUniquePerOwner ==
  \A i, j \in DOMAIN invoices :
    (i # j /\ invoices[i].userId = invoices[j].userId) =>
      invoices[i].invoiceNumber # invoices[j].invoiceNumber

\* two concurrent createInvoice calls of one owner computed the same number,
\* one has inserted it and the other is about to
C9_Witness ==
  \E p \in Procs, i \in DOMAIN invoices :
    /\ pc[p] = "ci_insert"
    /\ invoices[i].userId = call[p].userId
    /\ invoices[i].invoiceNumber = loc[p].invoiceNumber

\* k written with three digits (k < 1000)
ThreeDigits(k) == <<(k \div 100) % 10, (k \div 10) % 10, k % 10>>

\* the owner's invoices issued in year y
IssuedIn(u, y) ==
  {i \in DOMAIN invoices : invoices[i].userId = u /\ invoices[i].issueDate = y}

\* C10: with calls served one after the other and no deletions, the k-th
\* successful createInvoice of an owner in year Y stores INV-Y-<k, 3 digits>,
\* k being one more than the owner's invoices already issued in Y.
C10_SequentialNumbering ==
  [][\A p \in Procs :
        (pc[p] = "ci_insert" /\ nextInvoiceId' = nextInvoiceId + 1) =>
          invoices'[nextInvoiceId].invoiceNumber =
            <<"INV", "-", year, "-">>
              \o ThreeDigits(Cardinality(IssuedIn(call[p].userId, year)) + 1)]_vars

\* an owner holds INV-Y-001 and INV-Y-002, created in this order
C10_Witness ==
  \E i, j \in DOMAIN invoices :
    /\ i < j
    /\ invoices[i].userId = invoices[j].userId
    /\ invoices[i].issueDate = invoices[j].issueDate
    /\ invoices[i].invoiceNumber = <<"INV", "-", invoices[i].issueDate, "-", 0, 0, 1>>
    /\ invoices[j].invoiceNumber = <<"INV", "-", invoices[j].issueDate, "-", 0, 0, 2>>

\* the number a first createInvoice of the year is meant to store
FirstNumber(y) == <<"INV", "-", y, "-", 0, 0, 1>>

\* C11: the numbering of one owner does not depend on the other owners.  The
\* insert of a createInvoice call whose owner holds no invoice of the current
\* year (the number was computed in this year) succeeds and stores sequence
\* 001, whatever invoices the other owners hold.
C11_FirstNumberIndependent ==
  [][\A p \in Procs :
        (/\ pc[p] = "ci_insert"
         /\ CountInvoices(call[p].userId, year) = 0
         /\ loc[p].invoiceNumber = generateInvoiceNumber(call[p].userId, year)
         /\ pc'[p] # "ci_insert") =>
          /\ nextInvoiceId' = nextInvoiceId + 1
          /\ nextInvoiceId \in DOMAIN invoices'
          /\ invoices'[nextInvoiceId].userId = call[p].userId
          /\ invoices'[nextInvoiceId].invoiceNumber = FirstNumber(year)]_vars

C13_TimeoutStillSucceeds ==
  [][\A p \in Procs :
        ci_predictWith(p, Timeout) =>
          /\ pc'[p] = "idle"
          /\ response' = Success
          /\ loc[p].created # {}
          /\ \A returned \in loc[p].created : returned.predictedPaymentDate = NullDate
          /\ loc[p].newId \in DOMAIN invoices'
          /\ invoices'[loc[p].newId].predictedPaymentDate = NullDate]_vars

\* the third call created a second invoice for a client with a paid invoice
\* and succeeded without a prediction
C13_Witness ==
  /\ response = Success
  /\ AllIdle
  /\ calls = 3
  /\ \E i, j \in DOMAIN invoices :
       /\ i < j
       /\ invoices[i].clientId = invoices[j].clientId
       /\ invoices[i].status = "paid"
       /\ invoices[i].paidDate # NullDate
       /\ invoices[j].status = "draft"
       /\ invoices[j].predictedPaymentDate = NullDate

\* C14: a failure in the prediction side path after the insert (history query,
\* predictor call, update of the prediction fields) does not make createInvoice
\* fail: whenever the call ends after the insert it returns the created
\* invoice and the invoice is stored.
C14_SidePathNeverFails ==
  [][\A p \in Procs :
        (pc[p] \in {"ci_predict", "ci_store"} /\ Ends(p)) =>
          /\ response' = Success
          /\ loc[p].newId \in DOMAIN invoices']_vars

\* C15: predictPaymentTime never throws: it always returns, null or a body.
\* For a timeout, a non-2xx status and a malformed body it returns null; what
\* it returns other than null is a well-formed prediction of a 2xx response.
C15_PredictorReturnsNullOnFailure ==
  mlResult # NotCalled =>
    /\ (AxiosRejects(mlReply) \/ ~WellFormed(mlReply.body)) => mlResult = NoPrediction
    /\ (mlResult # NoPrediction) =>
         /\ mlReply.status \in 200 .. 299
         /\ WellFormed(mlResult)
         /\ mlResult = mlReply.body

C17_MarkPaidCreatesIncome ==
  [][\A p \in Procs :
        MarkCommits(p) =>
          LET id == call[p].target
              paidDate == call[p].data.paidDate
          IN /\ Cardinality(DOMAIN incomes' \ DOMAIN incomes) = 1
             /\ \A k \in DOMAIN incomes : k \in DOMAIN incomes' /\ incomes'[k] = incomes[k]
             /\ \A k \in DOMAIN incomes' \ DOMAIN incomes :
                  /\ incomes'[k].userId = call[p].userId
                  /\ incomes'[k].amount = invoices[id].amount
                  /\ incomes'[k].clientId = invoices[id].clientId
                  /\ incomes'[k].clientName = clients[invoices[id].clientId].name
                  /\ incomes'[k].projectName = invoices[id].description
                  /\ incomes'[k].source = "invoice"
                  /\ incomes'[k].loggedAt = paidDate
                  /\ invoices'[id] = [invoices[id] EXCEPT !.status = "paid",
                                                          !.paidDate = paidDate,
                                                          !.incomeLogId = k]
             /\ invoices[id].userId = call[p].userId
             /\ DOMAIN invoices' = DOMAIN invoices
             /\ \A i \in DOMAIN invoices \ {id} : invoices'[i] = invoices[i]]_vars

\* an updated invoice (amount 250, description "redesign") was marked paid: the
\* income record carries the updated values
C17_Witness ==
  /\ response = Success
  /\ \E i \in DOMAIN invoices, k \in DOMAIN incomes :
       /\ invoices[i].status = "paid"
       /\ invoices[i].paidDate = 15
       /\ invoices[i].incomeLogId = k
       /\ invoices[i].amount = 250
       /\ incomes[k].amount = 250
       /\ incomes[k].projectName = "redesign"
       /\ incomes[k].clientName = clients[invoices[i].clientId].name
       /\ incomes[k].loggedAt = 15

\* C18: calculateClientStats returns all zeros (totalInvoices = 0 included) when
\* no invoice of the input has a paidDate, and for a single invoice paid
\* exactly 35 days after its issue date it returns latePaymentRate = 1,
\* avgPaymentDays = 35 and paymentStd = 0.
C18_StatsOfNoneAndOfOne ==
  stats # NotComputed =>
    /\ (\A i \in 1 .. Len(history) : history[i].paidDate = {}) =>
         /\ stats.totalInvoices = 0
         /\ stats.avgPaymentDays = [num |-> 0, den |-> 1]
         /\ stats.latePaymentRate = [num |-> 0, den |-> 1]
         /\ stats.paymentStd = [rootOf |-> [num |-> 0, den |-> 1]]
         /\ stats.paymentTrend = [num |-> 0, den |-> 1]
    /\ (/\ Len(history) = 1
        /\ history[1].paidDate = {history[1].issueDate + 35 * DayLength}) =>
         /\ stats.latePaymentRate = [num |-> 1, den |-> 1]
         /\ stats.avgPaymentDays = [num |-> 35, den |-> 1]
         /\ stats.paymentStd = [rootOf |-> [num |-> 0, den |-> 1]]

\* the statistics of one invoice issued at 1 and paid at 71, 35 days later
C18_Witness ==
  /\ history = <<[issueDate |-> 1, paidDate |-> {71}]>>
  /\ stats.totalInvoices = 1
  /\ stats.avgPaymentDays = [num |-> 35, den |-> 1]

\* refreshAccessToken would accept the token in this state
Accepted(token) ==
  /\ JwtVerifies(token)
  /\ verifyRefreshToken(token.payload.userId, token)
  /\ token.payload.userId \in DOMAIN accounts

\* C19: refresh tokens rotate.  refreshAccessToken accepts a token only if it
\* is the one stored last for its user (by register, login or a refresh) with
\* no logout or resetPassword since, it answers any other token with an
\* authentication error, and after a successful refresh the token that was
\* presented is no longer accepted.
C19_RefreshTokensRotate ==
  [][\A token \in PresentableTokens :
        refreshAccessToken(token) =>
          IF Accepted(token)
          THEN /\ authResult'.error = ""
               /\ ~Accepted(token)'
          ELSE /\ authResult'.error = "AuthenticationError"
               /\ redis' = redis]_vars

\* slot p is about to insert an invoice number that a stored invoice of the
\* same owner already carries: it lost the count-then-insert race
LostRace(p) ==
  /\ pc[p] = "ci_insert"
  /\ \E i \in DOMAIN invoices :
       /\ invoices[i].userId = call[p].userId
       /\ invoices[i].invoiceNumber = loc[p].invoiceNumber

\* C20: two concurrent createInvoice calls of one owner in one year can compute
\* the same invoiceNumber; whenever that happens the insert of the later call
\* stores nothing and fails with a Conflict error, so at most one of the two
\* invoices is stored.
C20_DuplicateNumberConflict ==
  [][\A p \in Procs :
        (LostRace(p) /\ pc'[p] # "ci_insert") =>
          /\ pc'[p] = "idle"
          /\ IsConflict(errorHandler(response'))
          /\ errorHandler(response').code = "CONFLICT"
          /\ invoices' = invoices
          /\ nextInvoiceId' = nextInvoiceId
          /\ \A i, j \in DOMAIN invoices' :
               invoices'[i].invoiceNumber = invoices'[j].invoiceNumber => i = j]_vars

\* of the first two requests, concurrent createInvoice calls, one has stored
\* INV-Y-001 and is still running while the other was answered with the
\* unique-index error
C20_Witness ==
  /\ calls = 2
  /\ response = PrismaError("P2002")
  /\ nextInvoiceId = 2
  /\ DOMAIN invoices = {1}
  /\ \E q \in Procs :
       /\ pc[q] = "ci_predict"
       /\ loc[q].newId = 1
       /\ invoices[1].userId = call[q].userId
       /\ invoices[1].invoiceNumber = FirstNumber(year)

\* the sequence part of an invoice number, as an integer
SequenceOf(num) == 100 * num[5] + 10 * num[6] + num[7]

\* the invoice numbers of owner u in the year of num that are known, in this
\* state, to have been assigned: those of the stored invoices and those of the
\* invoices that the calls still running have created
AssignedBefore(u, num) ==
  {n \in {invoices[i].invoiceNumber : i \in {j \in DOMAIN invoices : invoices[j].userId = u}}
         \cup UNION {{r.invoiceNumber : r \in {c \in loc[q].created : c.userId = u}}
                       : q \in Procs} :
     StartsWith(n, SubSeq(num, 1, 4))}

\* C21: for one owner and one year, the sequence numbers that successful
\* createInvoice calls assign strictly increase in creation order, whatever
\* deleteInvoice calls come in between: an insert that succeeds stores a
\* sequence number greater than every one assigned to the owner before.
C21_NumbersIncrease ==
  [][\A p \in Procs :
        (pc[p] = "ci_insert" /\ pc'[p] = "ci_predict") =>
          \A n \in AssignedBefore(call[p].userId, loc[p].invoiceNumber) :
            SequenceOf(loc[p].invoiceNumber) > SequenceOf(n)]_vars

\* C22: paid is final.  An invoice that markInvoiceAsPaid has set to paid (its
\* status is paid and its income record is stored) has status paid in every
\* later state in which it is stored, whatever updateInvoice, deleteInvoice and
\* markInvoiceAsPaid calls interleave, an updateInvoice that read the invoice
\* before a concurrent markInvoiceAsPaid committed included.
C22_PaidStaysPaid ==
  [][\A i \in DOMAIN invoices :
        (/\ invoices[i].status = "paid"
         /\ invoices[i].incomeLogId \in DOMAIN incomes
         /\ i \in DOMAIN invoices') =>
          invoices'[i].status = "paid"]_vars

\* C23: a paid invoice is never hard-deleted.  Whatever the interleaving of a
\* deleteInvoice with a markInvoiceAsPaid on the same invoice, the invoice a
\* step removes is not paid, and the income record that markInvoiceAsPaid
\* created for it is not left stored without its invoice.
C23_PaidNeverDeleted ==
  [][\A i \in DOMAIN invoices :
        i \notin DOMAIN invoices' =>
          /\ invoices[i].status # "paid"
          /\ invoices[i].incomeLogId \notin DOMAIN incomes']_vars

\* C24: the invoice that a successful createInvoice stores starts as a draft
\* with paidDate null and incomeLogId null, owned by the caller and bound to
\* the client of the request, which is a client of the caller.
C24_CreatedAsDraft ==
  [][\A p \in Procs :
        (pc[p] = "ci_insert" /\ pc'[p] = "ci_predict") =>
          /\ DOMAIN invoices' = DOMAIN invoices \cup {nextInvoiceId}
          /\ nextInvoiceId \notin DOMAIN invoices
          /\ invoices'[nextInvoiceId].status = "draft"
          /\ invoices'[nextInvoiceId].paidDate = NullDate
          /\ invoices'[nextInvoiceId].incomeLogId = NullId
          /\ invoices'[nextInvoiceId].userId = call[p].userId
          /\ invoices'[nextInvoiceId].clientId = call[p].data.clientId
          /\ clients[call[p].data.clientId].userId = call[p].userId]_vars

\* u2's createInvoice has just stored its invoice for client c2 while another
\* invoice is stored already
C24_Witness ==
  \E p \in Procs :
    /\ pc[p] = "ci_predict"
    /\ call[p].userId = "u2"
    /\ loc[p].newId \in DOMAIN invoices
    /\ invoices[loc[p].newId].status = "draft"
    /\ invoices[loc[p].newId].clientId = "c2"
    /\ Cardinality(DOMAIN invoices) = 2

\* slot p moves in this step
Moves(p) == pc'[p] # pc[p]

\* C25: a createInvoice call makes at most one predictor call, and none when
\* the client has no paid invoice with a paidDate; the prediction fields are
\* written only when that call returned a result.  The call is made in the one
\* step at "ci_predict": a handler comes to it once, from its insert, and leaves
\* it for good; without payment history it ends there with no prediction; it
\* goes on to the write only with the non-null answer of the predictor, and an
\* invoice's prediction changes only in that write, to the date answered.
C25_OnePredictorCall ==
  [][/\ \A p \in Procs :
          /\ (Moves(p) /\ pc'[p] = "ci_predict") => pc[p] = "ci_insert"
          /\ (Moves(p) /\ pc[p] = "ci_predict") => pc'[p] \in {"ci_store", "idle"}
          /\ (Moves(p) /\ pc[p] = "ci_store") => pc'[p] = "idle"
          /\ (Moves(p) /\ pc[p] = "ci_predict"
                /\ PaidHistory(call[p].data.clientId) = {}) =>
               /\ pc'[p] = "idle"
               /\ response' = Success
               /\ invoices' = invoices
          /\ (Moves(p) /\ pc'[p] = "ci_store") =>
               /\ pc[p] = "ci_predict"
               /\ PaidHistory(call[p].data.clientId) # {}
               /\ loc'[p].prediction # NoPrediction
               /\ \E reply \in PredictorAnswers :
                    loc'[p].prediction = predictPaymentTime(reply)
     /\ \A i \in DOMAIN invoices \cap DOMAIN invoices' :
          invoices'[i].predictedPaymentDate # invoices[i].predictedPaymentDate =>
            \E p \in Procs :
              /\ pc[p] = "ci_store"
              /\ Moves(p)
              /\ loc[p].newId = i
              /\ loc[p].prediction # NoPrediction
              /\ invoices'[i].predictedPaymentDate =
                   loc[p].prediction.predicted_payment_date]_vars

\* a createInvoice for a client with payment history has ended with the
\* prediction stored on its invoice, and an invoice created while the client
\* had no history carries none
C25_Witness ==
  /\ AllIdle
  /\ response = Success
  /\ \E i, j \in DOMAIN invoices :
       /\ invoices[i].predictedPaymentDate = 45
       /\ invoices[j].predictedPaymentDate = NullDate
       /\ invoices[j].clientId = invoices[i].clientId

\* the reference definition of the statistics, over the positions of the input
\* that hold a paid invoice
RefPaid(h) == {i \in 1 .. Len(h) : h[i].paidDate # {}}

\* the whole days between issue and payment: the d with d days <= difference < d + 1 days
RefDays(h, i) ==
  LET paid == CHOOSE t \in h[i].paidDate : TRUE
      diff == paid - h[i].issueDate
  IN CHOOSE d \in -1 .. 40 : d * DayLength <= diff /\ diff < (d + 1) * DayLength

RECURSIVE RefSumDays(_, _)
RefSumDays(h, positions) ==
  IF positions = {} THEN 0
  ELSE LET i == CHOOSE j \in positions : TRUE
       IN RefDays(h, i) + RefSumDays(h, positions \ {i})

RefMean(h, positions) == Rat(RefSumDays(h, positions), Cardinality(positions))

\* the last min(5, N) paid invoices: those with fewer than 5 paid ones after them
RefRecent(h) == {i \in RefPaid(h) : Cardinality({j \in RefPaid(h) : j > i}) < 5}

\* C26: for every input list calculateClientStats agrees with the reference
\* definition: totalInvoices is the number of invoices with a paidDate;
\* avgPaymentDays is the mean of their whole payment days; latePaymentRate is
\* the fraction of them paid after more than 30 days (exactly 30 is not late);
\* paymentTrend is avgPaymentDays minus the mean over the last min(5, N) of
\* them, hence 0 whenever N <= 5.
C26_StatsMatchReference ==
  stats # NotComputed =>
    LET N == Cardinality(RefPaid(history)) IN
      /\ stats.totalInvoices = N
      /\ N > 0 =>
           /\ stats.avgPaymentDays = RefMean(history, RefPaid(history))
           /\ stats.latePaymentRate =
                Rat(Cardinality({i \in RefPaid(history) : RefDays(history, i) > 30}), N)
           /\ stats.paymentTrend =
                Minus(RefMean(history, RefPaid(history)),
                      RefMean(history, RefRecent(history)))
      /\ N <= 5 => stats.paymentTrend = [num |-> 0, den |-> 1]

\* six paid invoices, the oldest paid after 35 days and the five recent ones
\* after exactly 30: one in six is late and the trend is 185/6 - 30 = 5/6
C26_Witness ==
  /\ Len(history) = 6
  /\ stats.totalInvoices = 6
  /\ stats.latePaymentRate = [num |-> 1, den |-> 6]
  /\ stats.paymentTrend = [num |-> 5, den |-> 6]

\* C28: in every reachable state the clientId of every stored invoice refers
\* to a stored client owned by the invoice's owner, and a deleteClient whose
\* delete finds invoices of the client is rejected with a PreconditionFailed-
\* class error and leaves the client and its invoices stored.
C28_InvoiceClientExists ==
  [][/\ \A i \in DOMAIN invoices' :
          /\ invoices'[i].clientId \in DOMAIN clients'
          /\ clients'[invoices'[i].clientId].userId = invoices'[i].userId
     /\ \A p \in Procs :
          (pc[p] = "dc_delete" /\ Moves(p) /\ ClientReferenced(call[p].data.clientId)) =>
            /\ IsPreconditionFailed(errorHandler(response'))
            /\ clients' = clients
            /\ invoices' = invoices]_vars

\* a deleteClient was refused by the foreign key: every client is still
\* stored, and so is the invoice that refers to the client
C28_Witness ==
  /\ AllIdle
  /\ response = PrismaError("P2003")
  /\ DOMAIN clients = ClientIds
  /\ DOMAIN invoices # {}

InvoiceOps == {"createInvoice", "updateInvoice", "markInvoiceAsPaid", "deleteInvoice"}

\* the rows of a table that belong to user u, with their ids
RowsOf(table, u) == {<<id, table[id]>> : id \in {k \in DOMAIN table : table[k].userId = u}}

\* C27: no invoice operation (createInvoice, updateInvoice, markInvoiceAsPaid,
\* deleteInvoice) called by a user changes, creates or deletes an invoice, a
\* client or an income record of another user.  A step of a handler running
\* for caller A leaves the rows of every other user as they were, and a step
\* that finds no invoice or client of the caller writes nothing.
C27_OtherUsersUntouched ==
  [][\A p \in Procs :
        /\ (pc[p] # "idle" /\ Moves(p) /\ call[p].op \in InvoiceOps) =>
             \A b \in Users \ {call[p].userId} :
               /\ RowsOf(invoices', b) = RowsOf(invoices, b)
               /\ RowsOf(incomes', b) = RowsOf(incomes, b)
               /\ RowsOf(clients', b) = RowsOf(clients, b)
        /\ (pc[p] = "idle" /\ Moves(p) /\ call'[p].op \in InvoiceOps) =>
             /\ invoices' = invoices /\ incomes' = incomes /\ clients' = clients
             /\ Owned(call'[p].userId, call'[p].target)
                  \/ (call'[p].op = "createInvoice"
                        /\ ~ClientMissing(call'[p].userId, call'[p].data.clientId))
        /\ (pc[p] = "idle" /\ pc'[p] = "idle" /\ response' = NotFoundError("Invoice not found")) =>
             /\ invoices' = invoices /\ incomes' = incomes /\ clients' = clients]_vars

\* both users hold an invoice, u2's is paid with its income record stored, and
\* the last call, an invoice operation of a user on the invoice of the other,
\* was answered "Invoice not found"
C27_Witness ==
  /\ AllIdle
  /\ response = NotFoundError("Invoice not found")
  /\ \E i, j \in DOMAIN invoices :
       /\ invoices[i].userId = "u1"
       /\ invoices[j].userId = "u2"
       /\ invoices[j].status = "paid"
       /\ invoices[j].incomeLogId \in DOMAIN incomes
       /\ incomes[invoices[j].incomeLogId].userId = "u2"

\* C29: the invoice a successful createInvoice returns equals the invoice as
\* stored at the moment the call returns; when the predictor returned a
\* result, the returned invoice carries the predictedPaymentDate that was
\* written.
C29_ReturnedEqualsStored ==
  [][\A p \in Procs :
        (call[p].op = "createInvoice" /\ Ends(p) /\ response' = Success) =>
          /\ loc[p].newId \in DOMAIN invoices'
          /\ \A returned \in loc[p].created : returned = invoices'[loc[p].newId]]_vars

\* C30: for a goal that starts at or below its target, under every
\* interleaving of concurrent addFundsToGoal calls the currentAmount never
\* exceeds the targetAmount and always equals the starting amount plus the sum
\* of the amounts of the calls that succeeded: a call that succeeds raises the
\* stored amount by its own amount, and a rejected call leaves it unchanged.
C30_FundsAddUp ==
  [][/\ \A g \in DOMAIN goals' : goals'[g].currentAmount <= goals'[g].targetAmount
     /\ \A p \in Procs :
          (call[p].op = "addFundsToGoal" /\ Ends(p) /\ response' = Success) =>
            goals'[call[p].target].currentAmount =
              goals[call[p].target].currentAmount + call[p].data.amount
     /\ response' # Success => goals' = goals]_vars

====
